---- MODULE Spec2Model ----
(***************************************************************************)
(* minimalistic_scientific_calculator_react.jsx: the board evaluator       *)
(* checkWinner, the minimax searcher bestMove, the state machine of the    *)
(* ModernTicTacToe component that hosts them, and the state machine of the *)
(* MinimalScientificCalculator component.                                  *)
(***************************************************************************)
EXTENDS Integers, Sequences, FiniteSets, TLC

VARIABLES
  board,      \* useState board: the 9 cells, indexed 0..8
  xIsNext,    \* useState xIsNext: TRUE when "X" is the mark to move
  history,    \* useState history: the boards before each move, oldest first
  mode,       \* useState mode: "cpu" or "local"
  aiPlaysAs,  \* useState aiPlaysAs: the mark the AI plays
  scores,     \* useState scores: the tallies X, O and draws
  timer,      \* the pending setTimeout of the AI-turn effect, or NoTimer
  player,     \* the searching side handed to bestMove by a direct call
  pc,         \* position of a direct call of a pure function: "call", "return"
  ret,        \* the value the direct call returned
  workBd,     \* minimax's working array bd while a search is traced step by step
  bdRef,      \* the array bd refers to: a "copy", or the caller's "board"
  stack,      \* the open calls of minimax, outermost first
  steps,      \* loop iterations and call steps taken by the traced function
  expr,       \* Calculator useState expr: the expression being typed
  output,     \* Calculator useState output: the displayed result
  calcHistory \* Calculator useState history: {in, out} entries, newest first

vars == <<board, xIsNext, history, mode, aiPlaysAs, scores, timer, player, pc, ret,
          workBd, bdRef, stack, steps, expr, output, calcHistory>>

appVars == <<xIsNext, history, mode, aiPlaysAs, scores, timer>>

searchVars == <<workBd, bdRef, stack, steps>>

calcVars == <<expr, output, calcHistory>>

(***************************************************************************)
(* Values                                                                  *)
(***************************************************************************)
\* JavaScript null in a cell
Null == "null"

Marks == {"X", "O"}

Cells == 0..8

CellValues == {Null} \cup Marks

Boards == [Cells -> CellValues]

\* Array(9).fill(null)
EmptyBoard == [i \in Cells |-> Null]

\* the undefined that reading .i of a leaf result yields
Undefined == -1

\* the null that checkWinner returns, as a record so that it compares with
\* the other results
NullResult == [winner |-> Null]

DrawResult == [winner |-> "draw"]

\* no setTimeout is pending
NoTimer == [pending |-> FALSE]

LINES ==
  << <<0, 1, 2>>,
     <<3, 4, 5>>,
     <<6, 7, 8>>,
     <<0, 3, 6>>,
     <<1, 4, 7>>,
     <<2, 5, 8>>,
     <<0, 4, 8>>,
     <<2, 4, 6>> >>

\* a plausible slip: every(Boolean) written as some(Boolean)
someBoolean(b) == \E i \in Cells : b[i] # Null

\* board.every(Boolean)
everyBoolean(b) == \A i \in Cells : b[i] # Null

(***************************************************************************)
(* checkWinner                                                             *)
(***************************************************************************)
\* a plausible slip: the third cell of the line is not compared
lineMatchesTwoCells(b, line) ==
  /\ b[line[1]] # Null
  /\ b[line[1]] = b[line[2]]

\* the condition of the loop body of checkWinner, for the line [a, b, c]
lineMatches(b, line) ==
  /\ b[line[1]] # Null
  /\ b[line[1]] = b[line[2]]
  /\ b[line[1]] = b[line[3]]

\* the for loop over LINES from position k on: the position of the first
\* line that matches, 0 when the loop runs to its end
RECURSIVE firstLine(_, _)
firstLine(b, k) ==
  IF k > Len(LINES) THEN 0
  ELSE IF lineMatches(b, LINES[k]) THEN k
  ELSE firstLine(b, k + 1)

checkWinner(b) ==
  LET k == firstLine(b, 1) IN
  IF k # 0 THEN [winner |-> b[LINES[k][1]], line |-> LINES[k]]
  ELSE IF everyBoolean(b) THEN DrawResult
  ELSE NullResult

(***************************************************************************)
(* Direct calls of the pure functions on every input                       *)
(***************************************************************************)
\* no search is being traced
SearchIdle ==
  /\ workBd = EmptyBoard
  /\ bdRef = "copy"
  /\ stack = <<>>
  /\ steps = 0

\* the Calculator component as constructed: useState("") twice, useState([]);
\* strings are sequences of characters
CalcIdle ==
  /\ expr = <<>>
  /\ output = <<>>
  /\ calcHistory = <<>>

\* the component as constructed, but for the board
AppIdle ==
  /\ xIsNext = TRUE
  /\ history = <<>>
  /\ mode = "cpu"
  /\ aiPlaysAs = "O"
  /\ scores = [X |-> 0, O |-> 0, draws |-> 0]
  /\ timer = NoTimer

InitEval ==
  /\ board \in Boards
  /\ player = "X"
  /\ pc = "call"
  /\ ret = NullResult
  /\ AppIdle
  /\ SearchIdle
  /\ CalcIdle

CallCheckWinner ==
  /\ pc = "call"
  /\ ret' = checkWinner(board)
  /\ pc' = "return"
  /\ UNCHANGED <<board, player, appVars>>
  /\ UNCHANGED <<searchVars, calcVars>>

NextEval == CallCheckWinner

SpecEval == InitEval /\ [][NextEval]_vars

(***************************************************************************)
(* bestMove                                                                *)
(***************************************************************************)
\* const opponent = player === "X" ? "O" : "X"
opponentOf(p) == IF p = "X" THEN "O" ELSE "X"

\* the for loop of winnerCheck from position k on
RECURSIVE winnerCheckFrom(_, _)
winnerCheckFrom(b, k) ==
  IF k > Len(LINES) THEN
    IF everyBoolean(b) THEN "draw" ELSE Null
  ELSE LET a == LINES[k][1]
           b1 == LINES[k][2]
           c == LINES[k][3]
       IN IF b[a] # Null /\ b[a] = b[b1] /\ b[a] = b[c] THEN b[a]
          ELSE winnerCheckFrom(b, k + 1)

\* a plausible slip: the loop starts at the second line
winnerCheckSkipsFirst(b) == winnerCheckFrom(b, 2)

winnerCheck(b) == winnerCheckFrom(b, 1)

\* boards as numbers in base 3, the index of the table of minimax results
Digit(v) == IF v = Null THEN 0 ELSE IF v = "X" THEN 1 ELSE 2

Code(bd) ==
  Digit(bd[0]) + 3 * Digit(bd[1]) + 9 * Digit(bd[2]) + 27 * Digit(bd[3])
  + 81 * Digit(bd[4]) + 243 * Digit(bd[5]) + 729 * Digit(bd[6])
  + 2187 * Digit(bd[7]) + 6561 * Digit(bd[8])

Decode(c) ==
  LET pow == <<1, 3, 9, 27, 81, 243, 729, 2187, 6561>>
      val(d) == IF d = 0 THEN Null ELSE IF d = 1 THEN "X" ELSE "O"
  IN [i \in Cells |-> val((c \div pow[i + 1]) % 3)]

\* tables are sequences, indexed from 1
Index(bd) == Code(bd) + 1

Indices == 1..19683

\* the boards in the order of their indices, each with its number of empty
\* cells
BoardAt ==
  [c \in Indices |->
     LET bd == Decode(c - 1) IN
     [bd |-> bd, empty |-> Cardinality({i \in Cells : bd[i] = Null})]] \o <<>>

EmptyCells(bd) == {i \in Cells : bd[i] = Null}

\* a plausible slip: the recursive call is made with the same turn
RECURSIVE scoresFromSameTurn(_, _, _, _, _)
scoresFromSameTurn(bd, turn, p, rec, i) ==
  IF i >= 9 THEN <<>>
  ELSE IF bd[i] = Null
  THEN LET child == rec[Index([bd EXCEPT ![i] = turn])][<<turn, p>>]
       IN <<[i |-> i, score |-> child.score]>>
            \o scoresFromSameTurn(bd, turn, p, rec, i + 1)
  ELSE scoresFromSameTurn(bd, turn, p, rec, i + 1)

\* the loop "for (let i = 0; i < 9; i++) if (!bd[i]) { ... }" from i on: the
\* list scores (scoreList). rec[Index(b)][<<turn, player>>] is what the
\* recursive call minimax(bd, turn) returns on the board b.
RECURSIVE scoresFrom(_, _, _, _, _)
scoresFrom(bd, turn, p, rec, i) ==
  IF i >= 9 THEN <<>>
  ELSE IF bd[i] = Null
  THEN LET next == IF turn = p THEN opponentOf(p) ELSE p
           child == rec[Index([bd EXCEPT ![i] = turn])][<<next, p>>]
       IN <<[i |-> i, score |-> child.score]>> \o scoresFrom(bd, turn, p, rec, i + 1)
  ELSE scoresFrom(bd, turn, p, rec, i + 1)

\* a plausible slip: >= for >, which keeps the last of the best scores
RECURSIVE maximizeLast(_, _, _)
maximizeLast(scoreList, k, best) ==
  IF k > Len(scoreList) THEN best
  ELSE maximizeLast(scoreList, k + 1,
                    IF scoreList[k].score >= best.score THEN scoreList[k] ELSE best)

\* for (const s of scores) if (s.score > best.score) best = s
RECURSIVE maximize(_, _, _)
maximize(scoreList, k, best) ==
  IF k > Len(scoreList) THEN best
  ELSE maximize(scoreList, k + 1,
                IF scoreList[k].score > best.score THEN scoreList[k] ELSE best)

\* a plausible slip: the minimizing branch compares with >
RECURSIVE minimizeAsMax(_, _, _)
minimizeAsMax(scoreList, k, best) ==
  IF k > Len(scoreList) THEN best
  ELSE minimizeAsMax(scoreList, k + 1,
                     IF scoreList[k].score > best.score THEN scoreList[k] ELSE best)

\* for (const s of scores) if (s.score < best.score) best = s
RECURSIVE minimize(_, _, _)
minimize(scoreList, k, best) ==
  IF k > Len(scoreList) THEN best
  ELSE minimize(scoreList, k + 1,
                IF scoreList[k].score < best.score THEN scoreList[k] ELSE best)

\* a plausible slip: a win of the opponent scored as a draw
leafNoLoss(res, p) ==
  IF res = p THEN [i |-> Undefined, score |-> 1]
  ELSE [i |-> Undefined, score |-> 0]

\* a plausible slip: a win of the searching side scored as a draw
leafNoWin(res, p) ==
  IF res = opponentOf(p) THEN [i |-> Undefined, score |-> -1]
  ELSE [i |-> Undefined, score |-> 0]

\* a plausible slip: a leaf that names a cell
leafWithIndex(res, p) ==
  IF res = p THEN [i |-> 0, score |-> 1]
  ELSE IF res = opponentOf(p) THEN [i |-> 0, score |-> -1]
  ELSE [i |-> 0, score |-> 0]

\* the returns of minimax at a terminal node, res being "X", "O" or "draw":
\* objects with a score and no i
leaf(res, p) ==
  IF res = p THEN [i |-> Undefined, score |-> 1]
  ELSE IF res = opponentOf(p) THEN [i |-> Undefined, score |-> -1]
  ELSE [i |-> Undefined, score |-> 0]

\* the body of minimax(bd, turn) inside bestMove(board, p), given the results
\* rec of its recursive calls
minimaxBody(bd, turn, p, rec) ==
  LET res == winnerCheck(bd) IN
  IF res # Null THEN leaf(res, p)
  ELSE LET scoreList == scoresFrom(bd, turn, p, rec, 0) IN
       IF turn = p THEN maximize(scoreList, 1, scoreList[1])
       ELSE minimize(scoreList, 1, scoreList[1])

\* Every recursive call of minimax is made on a board with one more mark, so
\* the results are tabulated by the number of empty cells, fullest boards
\* first: minimaxUpTo(e)[Index(bd)][<<turn, p>>] is minimax(bd, turn) of
\* bestMove(_, p) for every board bd with at most e empty cells.
\* (Concatenating with <<>> makes the table a value computed once.)
RECURSIVE minimaxUpTo(_)
minimaxUpTo(e) ==
  LET rec == IF e = 0 THEN <<>> ELSE minimaxUpTo(e - 1) IN
  [c \in Indices |->
     LET bd == BoardAt[c].bd
         n == BoardAt[c].empty
     IN IF n < e THEN rec[c]
        ELSE IF n = e
        THEN [tp \in Marks \X Marks |-> minimaxBody(bd, tp[1], tp[2], rec)] @@ <<>>
        ELSE <<>>] \o <<>>

minimaxTable == minimaxUpTo(9)

minimax(bd, turn, p) == minimaxTable[Index(bd)][<<turn, p>>]

\* a plausible slip: the score is returned for the cell
bestMoveScore(b, p) == minimax(b, p, p).score

\* return minimax([...board], player).i
bestMove(b, p) == minimax(b, p, p).i

\* idx === undefined || board[idx], the condition of makeAIMove's fallback
fallbackTaken(b, idx) ==
  IF idx = Undefined THEN TRUE ELSE b[idx] # Null

InitSearch ==
  /\ board \in Boards
  /\ player \in Marks
  /\ pc = "call"
  /\ ret = Undefined
  /\ AppIdle
  /\ SearchIdle
  /\ CalcIdle

CallBestMove ==
  /\ pc = "call"
  /\ ret' = bestMove(board, player)
  /\ pc' = "return"
  /\ UNCHANGED <<board, player, appVars>>
  /\ UNCHANGED <<searchVars, calcVars>>

NextSearch == CallBestMove

SpecSearch == InitSearch /\ [][NextSearch]_vars

(***************************************************************************)
(* bestMove on the positions of legal play                                 *)
(***************************************************************************)
\* const current = xIsNext ? "X" : "O"
current == IF xIsNext THEN "X" ELSE "O"

InitPlay ==
  /\ board = EmptyBoard
  /\ player = "X"
  /\ pc = "call"
  /\ ret = Undefined
  /\ AppIdle
  /\ SearchIdle
  /\ CalcIdle

\* a legal move of the mark to move: the board and turn updates of
\* handleClick, which bestMove reads; the undo history is left as it is
PlayMove(i) ==
  /\ pc = "call"
  /\ board[i] = Null
  /\ checkWinner(board) = NullResult
  /\ board' = [board EXCEPT ![i] = current]
  /\ xIsNext' = ~xIsNext
  /\ UNCHANGED <<history, mode, aiPlaysAs, scores, timer, player, pc, ret>>
  /\ UNCHANGED <<searchVars, calcVars>>

\* bestMove called for the mark to move, as makeAIMove calls it
CallBestMoveToMove ==
  /\ pc = "call"
  /\ checkWinner(board) = NullResult
  /\ player' = current
  /\ ret' = bestMove(board, current)
  /\ pc' = "return"
  /\ UNCHANGED <<board, appVars>>
  /\ UNCHANGED <<searchVars, calcVars>>

NextPlay ==
  \/ \E i \in Cells : PlayMove(i)
  \/ CallBestMoveToMove

SpecPlay == InitPlay /\ [][NextPlay]_vars

(***************************************************************************)
(* Self-play: the searching side answers every legal play of its opponent  *)
(* with bestMove, from the empty board                                     *)
(***************************************************************************)
InitSelfPlay ==
  /\ board = EmptyBoard
  /\ player \in Marks
  /\ pc = "call"
  /\ ret = Undefined
  /\ AppIdle
  /\ SearchIdle
  /\ CalcIdle

\* the searching side's turn: idx = bestMove(board, player) is marked, as in
\* makeAIMove
SearcherMove ==
  /\ checkWinner(board) = NullResult
  /\ current = player
  /\ board' = [board EXCEPT ![bestMove(board, player)] = player]
  /\ xIsNext' = ~xIsNext
  /\ UNCHANGED <<history, mode, aiPlaysAs, scores, timer, player, pc, ret>>
  /\ UNCHANGED <<searchVars, calcVars>>

\* the opponent's turn: any empty cell, as handleClick allows
OpponentMove(i) ==
  /\ checkWinner(board) = NullResult
  /\ current # player
  /\ board[i] = Null
  /\ board' = [board EXCEPT ![i] = current]
  /\ xIsNext' = ~xIsNext
  /\ UNCHANGED <<history, mode, aiPlaysAs, scores, timer, player, pc, ret>>
  /\ UNCHANGED <<searchVars, calcVars>>

NextSelfPlay ==
  \/ SearcherMove
  \/ \E i \in Cells : OpponentMove(i)

\* a game is played on until it is over
SpecSelfPlay ==
  InitSelfPlay /\ [][NextSelfPlay]_vars /\ WF_vars(NextSelfPlay)

(***************************************************************************)
(* The ModernTicTacToe component                                           *)
(***************************************************************************)
\* the tallies are counted up to MaxTally
MaxTally == 2

\* const result = useMemo(() => checkWinner(board), [board])
result == checkWinner(board)

\* a plausible slip: the effect tests for "O", the side the AI plays at first,
\* instead of aiPlaysAs
aiTurnEffectForO(b, x, m, a) ==
  IF m = "cpu" /\ (IF x THEN "X" ELSE "O") = "O" /\ checkWinner(b) = NullResult
  THEN [pending |-> TRUE, board |-> b, player |-> a]
  ELSE NoTimer

\* the AI-turn effect after a render with board b, turn x, mode m and AI
\* side a: the timer it leaves pending, whose callback makeAIMove closes over
\* b and a; the cleanup has cleared the timer of the render before
aiTurnEffect(b, x, m, a) ==
  IF m = "cpu" /\ (IF x THEN "X" ELSE "O") = a /\ checkWinner(b) = NullResult
  THEN [pending |-> TRUE, board |-> b, player |-> a]
  ELSE NoTimer

\* a plausible slip: the draw is tallied for X
scoresEffectDrawAsX(s, r) ==
  IF r = NullResult THEN s
  ELSE IF r.winner = "draw" THEN [s EXCEPT !.X = @ + 1]
  ELSE [s EXCEPT ![r.winner] = @ + 1]

\* the scores effect, run with the result r of a board just set
scoresEffect(s, r) ==
  IF r = NullResult THEN s
  ELSE IF r.winner = "draw" THEN [s EXCEPT !.draws = @ + 1]
  ELSE [s EXCEPT ![r.winner] = @ + 1]

\* the tally that the scores effect raises for board b is below MaxTally
TallyRoom(b) ==
  LET r == checkWinner(b) IN
  r # NullResult =>
    (IF r.winner = "draw" THEN scores.draws ELSE scores[r.winner]) < MaxTally

Init ==
  /\ board = EmptyBoard
  /\ xIsNext = TRUE
  /\ history = <<>>
  /\ mode = "cpu"
  /\ aiPlaysAs = "O"
  /\ scores = [X |-> 0, O |-> 0, draws |-> 0]
  /\ timer = NoTimer
  /\ player = "X"
  /\ pc = "call"
  /\ ret = Undefined
  /\ SearchIdle
  /\ CalcIdle

\* setBoard(newBoard); setHistory(h => [...h, old]); setXIsNext(v => !v), and
\* the effects of the render that follows
ApplyMove(old, newBoard) ==
  /\ TallyRoom(newBoard)
  /\ history' = Append(history, old)
  /\ board' = newBoard
  /\ xIsNext' = ~xIsNext
  /\ scores' = scoresEffect(scores, checkWinner(newBoard))
  /\ timer' = aiTurnEffect(newBoard, ~xIsNext, mode, aiPlaysAs)

\* a plausible slip: the return that blocks clicks on the AI's turn left out
clickStateOnAITurn(b, x, h, m, a, i) ==
  IF b[i] # Null \/ checkWinner(b) # NullResult
  THEN [board |-> b, xIsNext |-> x, history |-> h]
  ELSE [board |-> [b EXCEPT ![i] = IF x THEN "X" ELSE "O"],
        xIsNext |-> ~x,
        history |-> Append(h, b)]

\* board, xIsNext and history after handleClick(i) in mode m with AI side a:
\* the two early returns, or newBoard[i] = current; setHistory(h => [...h,
\* board]); setBoard(newBoard); setXIsNext(v => !v)
clickState(b, x, h, m, a, i) ==
  IF b[i] # Null \/ checkWinner(b) # NullResult
  THEN [board |-> b, xIsNext |-> x, history |-> h]
  ELSE IF m = "cpu" /\ (IF x THEN "X" ELSE "O") = a
  THEN [board |-> b, xIsNext |-> x, history |-> h]
  ELSE [board |-> [b EXCEPT ![i] = IF x THEN "X" ELSE "O"],
        xIsNext |-> ~x,
        history |-> Append(h, b)]

handleClick(i) ==
  /\ LET c == clickState(board, xIsNext, history, mode, aiPlaysAs, i) IN
     IF c.history = history THEN UNCHANGED <<board, appVars>>
     ELSE /\ TallyRoom(c.board)
          /\ board' = c.board
          /\ history' = c.history
          /\ xIsNext' = c.xIsNext
          /\ scores' = scoresEffect(scores, checkWinner(c.board))
          /\ timer' = aiTurnEffect(c.board, c.xIsNext, mode, aiPlaysAs)
          /\ UNCHANGED <<mode, aiPlaysAs>>
  /\ UNCHANGED <<player, pc, ret>>
  /\ UNCHANGED <<searchVars, calcVars>>

\* the timer fires: makeAIMove of the render that set it
makeAIMove ==
  /\ timer.pending
  /\ LET b == timer.board
         p == timer.player
         empty == EmptyCells(b)
         bm == bestMove(b, p)
     IN IF empty = {}
        THEN /\ timer' = NoTimer
             /\ UNCHANGED <<board, xIsNext, history, mode, aiPlaysAs, scores>>
        ELSE /\ \E idx \in (IF fallbackTaken(b, bm) THEN empty ELSE {bm}) :
                  ApplyMove(b, [b EXCEPT ![idx] = p])
             /\ UNCHANGED <<mode, aiPlaysAs>>
  /\ UNCHANGED <<player, pc, ret>>
  /\ UNCHANGED <<searchVars, calcVars>>

\* a plausible slip: setXIsNext(true) left out of resetBoard
resetBoardKeepsTurn(full) ==
  /\ board' = EmptyBoard
  /\ history' = <<>>
  /\ scores' = IF full THEN [X |-> 0, O |-> 0, draws |-> 0] ELSE scores
  /\ timer' = aiTurnEffect(EmptyBoard, xIsNext, mode, aiPlaysAs)
  /\ UNCHANGED <<xIsNext, mode, aiPlaysAs, player, pc, ret>>
  /\ UNCHANGED <<searchVars, calcVars>>

resetBoard(full) ==
  /\ board' = EmptyBoard
  /\ history' = <<>>
  /\ xIsNext' = TRUE
  /\ scores' = IF full THEN [X |-> 0, O |-> 0, draws |-> 0] ELSE scores
  /\ timer' = aiTurnEffect(EmptyBoard, TRUE, mode, aiPlaysAs)
  /\ UNCHANGED <<mode, aiPlaysAs, player, pc, ret>>
  /\ UNCHANGED <<searchVars, calcVars>>

\* a plausible slip: setXIsNext((v) => !v) left out of undo
undoStateKeepsTurn(b, x, h) ==
  IF h = <<>> THEN [board |-> b, xIsNext |-> x, history |-> h]
  ELSE [board |-> h[Len(h)],
        xIsNext |-> x,
        history |-> SubSeq(h, 1, Len(h) - 1)]

\* board, xIsNext and history after undo: const last = history[history.length
\* - 1]; if (!last) return; setBoard(last); setHistory(h => h.slice(0, -1));
\* setXIsNext(v => !v)
undoState(b, x, h) ==
  IF h = <<>> THEN [board |-> b, xIsNext |-> x, history |-> h]
  ELSE [board |-> h[Len(h)],
        xIsNext |-> ~x,
        history |-> SubSeq(h, 1, Len(h) - 1)]

undo ==
  /\ IF history = <<>> THEN UNCHANGED <<board, appVars>>
     ELSE LET u == undoState(board, xIsNext, history) IN
          /\ TallyRoom(u.board)
          /\ board' = u.board
          /\ history' = u.history
          /\ xIsNext' = u.xIsNext
          /\ scores' = scoresEffect(scores, checkWinner(u.board))
          /\ timer' = aiTurnEffect(u.board, u.xIsNext, mode, aiPlaysAs)
          /\ UNCHANGED <<mode, aiPlaysAs>>
  /\ UNCHANGED <<player, pc, ret>>
  /\ UNCHANGED <<searchVars, calcVars>>

\* a plausible slip: mode missing from the dependencies of the AI-turn effect,
\* so that a switch of mode neither clears nor sets the timer
setModeKeepsTimer(m) ==
  /\ mode' = m
  /\ UNCHANGED <<board, xIsNext, history, aiPlaysAs, scores, timer, player, pc, ret>>
  /\ UNCHANGED <<searchVars, calcVars>>

setMode(m) ==
  /\ mode' = m
  /\ timer' = aiTurnEffect(board, xIsNext, m, aiPlaysAs)
  /\ UNCHANGED <<board, xIsNext, history, aiPlaysAs, scores, player, pc, ret>>
  /\ UNCHANGED <<searchVars, calcVars>>

setAiPlaysAs(a) ==
  /\ aiPlaysAs' = a
  /\ timer' = aiTurnEffect(board, xIsNext, mode, a)
  /\ UNCHANGED <<board, xIsNext, history, mode, scores, player, pc, ret>>
  /\ UNCHANGED <<searchVars, calcVars>>

\* CPU mode, the AI's side chosen while the board is empty
NextCpu ==
  \/ \E i \in Cells : handleClick(i)
  \/ makeAIMove
  \/ \E full \in BOOLEAN : resetBoard(full)
  \/ undo
  \/ \E a \in Marks : board = EmptyBoard /\ setAiPlaysAs(a)

SpecCpu == Init /\ [][NextCpu]_vars

\* the empty cells the user picks from, lowest index first
MaxChoice == 1

\* the games counted in the tallies between two full resets
MaxGames == 1

\* the cells the user clicks: any occupied cell, and the MaxChoice lowest
\* empty ones
Offered(i) ==
  \/ board[i] # Null
  \/ Cardinality({j \in EmptyCells(board) : j < i}) < MaxChoice

Counted == scores.X + scores.O + scores.draws <= MaxGames

\* every event of the component: the clicks on the cells and on the buttons
\* Undo, Reset, Reset All, vs CPU, Local, CPU: X and CPU: O, and the timer
Next ==
  \/ \E i \in Cells : Offered(i) /\ handleClick(i) /\ Counted'
  \/ makeAIMove /\ Counted'
  \/ \E full \in BOOLEAN : resetBoard(full)
  \/ undo
  \/ \E m \in {"cpu", "local"} : setMode(m)
  \/ \E a \in Marks : setAiPlaysAs(a)

Spec == Init /\ [][Next]_vars

\* the timer of setTimeout(makeAIMove, 350) fires unless it is cleared: the
\* user's events are under no obligation, the pending timer is
TimerFires == makeAIMove /\ Counted'

FairSpec == Init /\ [][Next]_vars /\ WF_vars(TimerFires)

(***************************************************************************)
(* The evaluator's contract                                                *)
(***************************************************************************)
\* the three cells of the line hold one and the same mark
Completed(b, line) ==
  \E m \in Marks : \A j \in 1..3 : b[line[j]] = m

CompletedLines(b) == {k \in 1..Len(LINES) : Completed(b, LINES[k])}

Earliest(ks) == CHOOSE k \in ks : \A j \in ks : k <= j

IsWin(r) == r.winner \in Marks

\* C1: on each of the 3^9 boards checkWinner returns a win exactly when some
\* line of LINES is completed by one mark, and the win names the mark and the
\* index triple of the first completed line in LINES order.
C1_WinIffCompletedLine ==
  pc = "return" =>
    LET ks == CompletedLines(board) IN
    /\ IsWin(ret) <=> ks # {}
    /\ ks # {} =>
         ret = [winner |-> board[LINES[Earliest(ks)][1]],
                line |-> LINES[Earliest(ks)]]

\* an illegally double-won board (a line of each mark), reported as the
\* earlier of its lines
C1_Witness ==
  /\ pc = "return"
  /\ \E j, k \in CompletedLines(board) :
       /\ j < k
       /\ board[LINES[j][1]] # board[LINES[k][1]]
       /\ ret.line = LINES[j]

\* C2: on a board without a completed line checkWinner returns Draw exactly
\* when all 9 cells are occupied and null exactly when a cell is empty; Draw
\* is never returned for a board with an empty cell or a completed line.
C2_DrawIffFull ==
  pc = "return" =>
    LET full == \A i \in Cells : board[i] \in Marks IN
    /\ CompletedLines(board) = {} =>
         /\ ret = DrawResult <=> full
         /\ ret = NullResult <=> ~full
    /\ ret = DrawResult => full /\ CompletedLines(board) = {}

C2_Witness ==
  /\ pc = "return"
  /\ ret = DrawResult
  /\ \A i \in Cells : board[i] \in Marks
  /\ CompletedLines(board) = {}

(***************************************************************************)
(* The searcher's contract                                                 *)
(***************************************************************************)
InProgress(b) == checkWinner(b) = NullResult

Count(b, m) == Cardinality({i \in Cells : b[i] = m})

Place(b, i, m) == [b EXCEPT ![i] = m]

\* cell i is empty and a mark m placed there completes a line
WinsAt(b, i, m) ==
  /\ b[i] = Null
  /\ \E k \in 1..Len(LINES) : \A j \in 1..3 : Place(b, i, m)[LINES[k][j]] = m

(***************************************************************************)
(* The game-theoretic value of a position of legal play, from the rules    *)
(* alone: what a side can force whatever the other side replies.           *)
(***************************************************************************)
\* the mark to move in a position of legal play: X moves first
Mover(b) == IF Count(b, "X") = Count(b, "O") THEN "X" ELSE "O"

LegalCounts(b) == Count(b, "X") - Count(b, "O") \in {0, 1}

\* how the game stands for side p: "win", "loss", "draw" or "open"
Outcome(b, p) ==
  IF \E k \in CompletedLines(b) : b[LINES[k][1]] = p THEN "win"
  ELSE IF CompletedLines(b) # {} THEN "loss"
  ELSE IF \A i \in Cells : b[i] \in Marks THEN "draw"
  ELSE "open"

\* side p can force an outcome in goal from b, can[Index(b2)] saying so for
\* the positions b2 one move later
ForcesNode(b, p, goal, can) ==
  IF Outcome(b, p) # "open" THEN Outcome(b, p) \in goal
  ELSE IF Mover(b) = p
  THEN \E i \in Cells : b[i] = Null /\ can[Index(Place(b, i, p))]
  ELSE \A i \in Cells : b[i] = Null => can[Index(Place(b, i, Mover(b)))]

\* by backward induction on the number of empty cells
RECURSIVE ForcesUpTo(_, _, _)
ForcesUpTo(e, p, goal) ==
  LET can == IF e = 0 THEN <<>> ELSE ForcesUpTo(e - 1, p, goal) IN
  [c \in Indices |->
     LET b == BoardAt[c].bd
         n == BoardAt[c].empty
     IN IF n < e THEN can[c]
        ELSE IF n = e /\ LegalCounts(b) THEN ForcesNode(b, p, goal, can)
        ELSE FALSE] \o <<>>

ForcedWinTable == [p \in Marks |-> ForcesUpTo(9, p, {"win"})] @@ <<>>

NoLossTable == [p \in Marks |-> ForcesUpTo(9, p, {"win", "draw"})] @@ <<>>

\* side p has a forced win from b
ForcedWin(b, p) == ForcedWinTable[p][Index(b)]

\* side p can force a draw or a win from b
CanAvoidLoss(b, p) == NoLossTable[p][Index(b)]

\* C3: on every in-progress board and for either searching side bestMove
\* returns an index in 0..8 whose cell is empty, so the fallback of makeAIMove
\* is not taken on an in-progress board.
C3_ReturnsEmptyCell ==
  (pc = "return" /\ InProgress(board)) =>
    /\ ret \in Cells
    /\ board[ret] = Null
    /\ ~fallbackTaken(board, ret)

\* an in-progress board that no legal play reaches
C3_Witness ==
  /\ pc = "return"
  /\ InProgress(board)
  /\ Count(board, "O") > Count(board, "X") + 1
  /\ ret \in Cells
  /\ board[ret] = Null


\* C4: in every in-progress position of legal play the cell bestMove returns
\* for the side to move keeps the game-theoretic value: a forced win stays a
\* forced win, and a position that need not be lost still need not be lost
\* after the move, whatever the opponent replies.
C4_KeepsGameValue ==
  pc = "return" =>
    LET after == Place(board, ret, player) IN
    /\ ret \in Cells
    /\ board[ret] = Null
    /\ ForcedWin(board, player) => ForcedWin(after, player)
    /\ CanAvoidLoss(board, player) => CanAvoidLoss(after, player)

\* a forced win that no single move completes
C4_Witness ==
  /\ pc = "return"
  /\ ForcedWin(board, player)
  /\ ~\E i \in Cells : WinsAt(board, i, player)
  /\ ForcedWin(Place(board, ret, player), player)

\* C5: in self-play from the empty board, the searching side moving first
\* or second and the opponent playing any legal reply, every game ends and
\* no board is ever a win for the opponent.
C5_SelfPlayNeverLoses ==
  /\ [](Outcome(board, player) # "loss")
  /\ <>(Outcome(board, player) \in {"win", "draw"})

\* a game the searching side, moving second, has won
C5_Witness ==
  /\ player = "O"
  /\ checkWinner(board).winner = "O"
  /\ Outcome(board, player) = "win"

\* C6: in CPU mode, the AI's side unchanged since the board was last empty,
\* the board is never a win for the human's mark, whatever the human clicks,
\* undoes or resets and whenever the AI's timer fires.
C6_HumanNeverWins ==
  checkWinner(board).winner # opponentOf(aiPlaysAs)

\* the AI, playing X, has won its second game
C6_Witness ==
  /\ aiPlaysAs = "X"
  /\ checkWinner(board).winner = "X"
  /\ scores.X = 2

\* the cells with an immediate win for m
WinningCells(b, m) == {i \in Cells : WinsAt(b, i, m)}

Lowest(cs) == CHOOSE i \in cs : \A j \in cs : i <= j

\* the board {0:A, 1:A, 3:B, 4:B} with A to move: A = X, as X moves first
BoardC7 ==
  [i \in Cells |-> IF i \in {0, 1} THEN "X" ELSE IF i \in {3, 4} THEN "O" ELSE Null]

\* C7 as stated: whenever some empty cell completes a line for the side to
\* move, bestMove returns a cell that completes a line for it.
C7_PrefersImmediateWin ==
  (pc = "return" /\ WinningCells(board, player) # {}) =>
    ret \in WinningCells(board, player)

\* C7, amended: whenever some empty cell completes a line for the side to
\* move, bestMove returns the lowest-index empty cell after which that side
\* still has a forced win, an immediate win or not; on the board
\* {0:A, 1:A, 3:B, 4:B} it returns 2.
C7_LowestForcedWin ==
  (pc = "return" /\ WinningCells(board, player) # {}) =>
    /\ ret = Lowest({i \in Cells :
                       board[i] = Null /\ ForcedWin(Place(board, i, player), player)})
    /\ board = BoardC7 => ret = 2

\* an immediate win is there and the cell returned wins only later
C7_Witness ==
  /\ pc = "return"
  /\ WinningCells(board, player) # {}
  /\ ret \notin WinningCells(board, player)
  /\ ForcedWin(Place(board, ret, player), player)

\* the board {0:A, 3:B, 4:B} with A to move: A = O, as X moves first
BoardC8 ==
  [i \in Cells |-> IF i = 0 THEN "O" ELSE IF i \in {3, 4} THEN "X" ELSE Null]

\* the opponent threatens a line and the side to move has no immediate win
Threatened(b, m) ==
  /\ WinningCells(b, opponentOf(m)) # {}
  /\ WinningCells(b, m) = {}

\* C8 as stated: when the opponent threatens to complete a line and the side
\* to move has no immediate win, bestMove returns the blocking cell.
C8_BlocksThreat ==
  (pc = "return" /\ Threatened(board, player)) =>
    ret \in WinningCells(board, opponentOf(player))

\* C8, amended: when the opponent threatens to complete a line and the side
\* to move has no immediate win, bestMove returns the blocking cell if the
\* side to move can still avoid a loss, and otherwise (every cell loses) the
\* lowest-index empty cell; on the board {0:A, 3:B, 4:B} it returns 5.
C8_BlocksUnlessLost ==
  (pc = "return" /\ Threatened(board, player)) =>
    /\ CanAvoidLoss(board, player) =>
         WinningCells(board, opponentOf(player)) = {ret}
    /\ ~CanAvoidLoss(board, player) =>
         ret = Lowest({i \in Cells : board[i] = Null})
    /\ board = BoardC8 => ret = 5

\* the block that saves the game
C8_Witness ==
  /\ pc = "return"
  /\ Threatened(board, player)
  /\ CanAvoidLoss(board, player)
  /\ WinningCells(board, opponentOf(player)) = {ret}

\* the score minimax gives the searching side p for its move to cell i
MoveScore(b, i, p) == minimax(Place(b, i, p), opponentOf(p), p).score

\* C9: on every in-progress board and for either searching side bestMove
\* returns the lowest index among the empty cells whose minimax score is the
\* maximum over the empty cells; on the empty board that is cell 0.
C9_LowestIndexOfBest ==
  (pc = "return" /\ InProgress(board)) =>
    LET empty == {i \in Cells : board[i] = Null}
        best == {i \in empty :
                   \A j \in empty : MoveScore(board, j, player) <= MoveScore(board, i, player)}
    IN /\ ret = Lowest(best)
       /\ board = EmptyBoard => ret = 0

\* the empty board, where several cells are equally good
C9_Witness ==
  /\ pc = "return"
  /\ board = EmptyBoard
  /\ ret = 0
  /\ Cardinality({i \in Cells : MoveScore(board, i, player) = MoveScore(board, 0, player)}) > 1

MaxEmpty == 3

\* the positions of legal play a traced search starts from
StepBoard(b) ==
  /\ LegalCounts(b)
  /\ InProgress(b)
  /\ Cardinality(EmptyCells(b)) <= MaxEmpty

InitSteps ==
  /\ board \in Boards
  /\ player = "X"
  /\ pc = "call"
  /\ ret = NullResult
  /\ AppIdle
  /\ SearchIdle
  /\ CalcIdle

\* one iteration of for (const [a, b, c] of LINES), or the two returns after
\* the loop; steps counts the lines already passed
CheckWinnerStep ==
  /\ pc \in {"call", "lines"}
  /\ LET k == steps + 1 IN
     IF k <= Len(LINES)
     THEN IF lineMatches(board, LINES[k])
          THEN /\ ret' = [winner |-> board[LINES[k][1]], line |-> LINES[k]]
               /\ pc' = "return"
               /\ UNCHANGED steps
          ELSE /\ steps' = steps + 1
               /\ pc' = "lines"
               /\ UNCHANGED ret
     ELSE /\ ret' = IF everyBoolean(board) THEN DrawResult ELSE NullResult
          /\ pc' = "return"
          /\ UNCHANGED steps
  /\ UNCHANGED <<board, player, appVars, workBd, bdRef, stack, calcVars>>

\* a plausible slip: minimax(board, player), the search on the caller's array
spreadOmitted == "board"

\* [...board]: the array minimax works on is a fresh copy
spread == "copy"

\* a plausible slip: bd[i] = turn left out
placeNothing(b, i, turn) == b

\* bd[i] = turn
place(b, i, turn) == [b EXCEPT ![i] = turn]

\* a plausible slip: bd[i] = null left out
restoreSkipped(b, i) == b

\* bd[i] = null
restore(b, i) == [b EXCEPT ![i] = Null]

\* a write to the array bd refers to
writeBd(newBd) ==
  /\ workBd' = newBd
  /\ board' = IF bdRef = "board" THEN newBd ELSE board

\* a call of minimax(bd, turn) just entered; entry records bd at that moment
frame(turn, entry) ==
  [turn |-> turn, i |-> 0, scoreList |-> <<>>, entry |-> entry, at |-> "enter"]

top == stack[Len(stack)]

\* return minimax([...board], player).i
StartBestMove ==
  /\ pc = "call"
  /\ StepBoard(board)
  /\ player' = Mover(board)
  /\ bdRef' = spread
  /\ workBd' = board
  /\ stack' = <<frame(Mover(board), board)>>
  /\ pc' = "search"
  /\ steps' = 0
  /\ UNCHANGED <<board, ret, appVars, calcVars>>

\* the innermost call returns r: bestMove reads .i of the outermost result;
\* an inner result goes to the caller's loop body, which pushes {i, score},
\* restores the cell and moves on to the next i
returnMinimax(r) ==
  IF Len(stack) = 1
  THEN /\ ret' = r.i
       /\ pc' = "searched"
       /\ stack' = <<>>
       /\ UNCHANGED <<board, workBd>>
  ELSE LET n == Len(stack) - 1
           caller == stack[n]
       IN /\ writeBd(restore(workBd, caller.i))
          /\ stack' = [SubSeq(stack, 1, n) EXCEPT ![n] =
               [caller EXCEPT
                  !.scoreList = Append(@, [i |-> caller.i, score |-> r.score]),
                  !.i = @ + 1]]
          /\ UNCHANGED <<ret, pc>>

\* const res = winnerCheck(bd) and the three leaf returns
MinimaxEnter ==
  /\ pc = "search"
  /\ top.at = "enter"
  /\ LET res == winnerCheck(workBd) IN
     IF res # Null THEN returnMinimax(leaf(res, player))
     ELSE /\ stack' = [stack EXCEPT ![Len(stack)].at = "loop"]
          /\ UNCHANGED <<board, workBd, ret, pc>>
  /\ steps' = steps + 1
  /\ UNCHANGED <<player, bdRef, appVars, calcVars>>

\* one iteration of for (let i = 0; i < 9; i++): an occupied cell is passed
\* over, an empty one is marked and minimax is called for the other turn
MinimaxLoop ==
  /\ pc = "search"
  /\ top.at = "loop"
  /\ top.i < 9
  /\ IF workBd[top.i] = Null
     THEN LET newBd == place(workBd, top.i, top.turn)
              next == IF top.turn = player THEN opponentOf(player) ELSE player
          IN /\ writeBd(newBd)
             /\ stack' = Append(stack, frame(next, newBd))
     ELSE /\ stack' = [stack EXCEPT ![Len(stack)].i = @ + 1]
          /\ UNCHANGED <<board, workBd>>
  /\ steps' = steps + 1
  /\ UNCHANGED <<player, ret, pc, bdRef, appVars, calcVars>>

\* after the loop: the best of scores for the turn is returned
MinimaxBest ==
  /\ pc = "search"
  /\ top.at = "loop"
  /\ top.i = 9
  /\ LET scoreList == top.scoreList IN
     returnMinimax(IF top.turn = player
                   THEN maximize(scoreList, 1, scoreList[1])
                   ELSE minimize(scoreList, 1, scoreList[1]))
  /\ steps' = steps + 1
  /\ UNCHANGED <<player, bdRef, appVars, calcVars>>

NextSteps ==
  \/ CheckWinnerStep
  \/ StartBestMove
  \/ MinimaxEnter
  \/ MinimaxLoop
  \/ MinimaxBest

SpecSteps == InitSteps /\ [][NextSteps]_vars

\* the traced search returns what the tabulated minimax returns
TraceAgreesWithTable ==
  /\ pc = "searched" => ret = bestMove(board, player)
  /\ pc = "return" => ret = checkWinner(board)

(***************************************************************************)
(* The working board and the depth of the search                           *)
(***************************************************************************)
\* C11: bestMove never changes the board its caller passed, since it searches
\* on a copy; while the search runs the working board equals, cell for cell,
\* the board the innermost open call of minimax was entered with, so every
\* call returns with the board as it found it and every sibling branch starts
\* from the same position; when bestMove returns no hypothetical mark is left.
C11_SearchLeavesBoards ==
  /\ [][board' = board]_vars
  /\ [](pc = "search" => workBd = top.entry)
  /\ [](pc = "searched" => workBd = board)

\* an inner call whose first branch has returned and whose next is explored
C11_Witness ==
  /\ pc = "search"
  /\ Len(stack) >= 2
  /\ top.at = "loop"
  /\ Len(top.scoreList) >= 1
  /\ top.i < 9
  /\ workBd[top.i] = Null
  /\ workBd # board

RECURSIVE Nodes(_)
\* the calls of minimax on a board with e empty cells, at most
Nodes(e) == IF e = 0 THEN 1 ELSE 1 + e * Nodes(e - 1)

\* C12: checkWinner ends within the 8 lines of LINES on each of the 3^9
\* boards, and bestMove on a board in progress ends: the depth of the
\* recursion never exceeds the number of empty cells of the input board (at
\* most 9), every recursive call is entered on a board with exactly one more
\* occupied cell than its caller's, the steps taken stay below a bound that
\* depends on the input only, and a call that has not returned can step.
C12_SearchTerminates ==
  /\ pc \in {"call", "lines"} => steps <= Len(LINES)
  /\ pc \in {"call", "lines", "search"} => ENABLED NextSteps
  /\ pc = "search" =>
       LET e == Cardinality(EmptyCells(stack[1].entry)) IN
       /\ e <= 9
       /\ Len(stack) - 1 <= e
       /\ \A k \in 1..Len(stack) :
            Cardinality(EmptyCells(stack[k].entry)) = e - (k - 1)
       /\ \A k \in 1..(Len(stack) - 1) :
            stack[k + 1].entry = [stack[k].entry EXCEPT ![stack[k].i] = stack[k].turn]
       /\ steps <= 11 * Nodes(e)

\* the recursion at its deepest: as many nested calls as the input had empty
\* cells, on a full board
C12_Witness ==
  /\ pc = "search"
  /\ Cardinality(EmptyCells(stack[1].entry)) = MaxEmpty
  /\ Len(stack) - 1 = MaxEmpty
  /\ EmptyCells(workBd) = {}
  /\ steps >= 2 * MaxEmpty

(***************************************************************************)
(* The component: the AI's timer                                           *)
(***************************************************************************)
\* the AI is to move: CPU mode, its mark to move, the board in progress
AITurn == mode = "cpu" /\ current = aiPlaysAs /\ InProgress(board)

\* C13: a pending timer was set for the board, turn, mode and side of the
\* present render, so any change of them has cancelled the timers set before;
\* the AI's move is applied only in CPU mode with the AI's mark to move on a
\* board in progress, marks bestMove of the present board, and leaves no timer
\* pending, so that no stale move is applied and no turn is moved twice.
C13_NoStaleAIMove ==
  /\ [](timer.pending =>
          /\ AITurn
          /\ timer.board = board
          /\ timer.player = aiPlaysAs)
  /\ [][makeAIMove =>
          /\ AITurn
          /\ board' = Place(board, bestMove(board, aiPlaysAs), aiPlaysAs)
          /\ ~timer'.pending]_vars
  /\ [][(/\ timer.pending
         /\ \/ board' # board
            \/ xIsNext' # xIsNext
            \/ mode' # mode
            \/ aiPlaysAs' # aiPlaysAs) => timer' # timer]_vars

\* a game under way in local mode with the AI's mark to move and no timer
C13_Witness ==
  /\ mode = "local"
  /\ current = aiPlaysAs
  /\ InProgress(board)
  /\ history # <<>>
  /\ ~timer.pending

(***************************************************************************)
(* The component: positions, clicks and undo                               *)
(***************************************************************************)
MarksOn(b) == Count(b, "X") + Count(b, "O")

\* the marks that have a completed line on b
LineOwners(b) == {b[LINES[k][1]] : k \in CompletedLines(b)}

\* C14: in every reachable state of the component the board is a legal
\* position that agrees with the turn flag: X has as many marks as O or one
\* more, xIsNext holds exactly when the counts are equal, at most one mark has
\* a completed line, and history holds one earlier board per mark on the
\* board, its k-th board (counting from 0) holding exactly k marks.
C14_LegalPosition ==
  /\ Count(board, "X") - Count(board, "O") \in {0, 1}
  /\ xIsNext <=> Count(board, "X") = Count(board, "O")
  /\ Cardinality(LineOwners(board)) <= 1
  /\ Len(history) = MarksOn(board)
  /\ \A k \in 1..Len(history) : MarksOn(history[k]) = k - 1

\* a game that O has won in local mode after a switch of the AI's side
C14_Witness ==
  /\ mode = "local"
  /\ aiPlaysAs = "X"
  /\ LineOwners(board) = {"O"}
  /\ Len(history) >= 6
  /\ xIsNext

\* clicks on cell i are ignored
Ignored(i) ==
  \/ board[i] # Null
  \/ ~InProgress(board)
  \/ mode = "cpu" /\ current = aiPlaysAs

\* C15: handleClick(i) leaves board, xIsNext and history as they are when
\* cell i is occupied, when the game is over, or when in CPU mode the mark to
\* move is the AI's; otherwise it writes the mark to move into cell i and no
\* other cell, appends the board before the move to history and flips the
\* turn. A terminal board changes through undo or a reset only.
C15_ClickFrame ==
  /\ [](\A i \in Cells :
          LET c == clickState(board, xIsNext, history, mode, aiPlaysAs, i) IN
          IF Ignored(i)
          THEN c = [board |-> board, xIsNext |-> xIsNext, history |-> history]
          ELSE /\ c.board[i] = current
               /\ \A j \in Cells \ {i} : c.board[j] = board[j]
               /\ c.history = Append(history, board)
               /\ c.xIsNext = ~xIsNext)
  /\ [][board' # board /\ ~InProgress(board) =>
          undo \/ \E full \in BOOLEAN : resetBoard(full)]_vars

\* the human has moved in CPU mode and clicks are blocked until the AI moves
C15_Witness ==
  /\ mode = "cpu"
  /\ current = aiPlaysAs
  /\ InProgress(board)
  /\ timer.pending
  /\ Len(history) >= 3
  /\ Count(board, opponentOf(aiPlaysAs)) >= 2

\* board, xIsNext and history of the present state
gameState == [board |-> board, xIsNext |-> xIsNext, history |-> history]

RECURSIVE undoTimes(_, _)
\* n undos in a row
undoTimes(st, n) ==
  IF n = 0 THEN st
  ELSE undoTimes(undoState(st.board, st.xIsNext, st.history), n - 1)

\* a step that applies a move of the human or of the AI: a mark more on the
\* board, or a board more in history
MoveStep ==
  \/ MarksOn(board') > MarksOn(board)
  \/ Len(history') > Len(history)

\* C16: undo rewinds exactly one move: undo right after a move of the human
\* or of the AI gives back the board, xIsNext and history of before the move;
\* undo with an empty history changes nothing; and as many undos as there
\* were moves since the empty board give back the empty board, X to move.
C16_UndoRewindsOneMove ==
  /\ [][MoveStep => undoState(board', xIsNext', history') = gameState]_vars
  /\ [](history = <<>> => undoState(board, xIsNext, history) = gameState)
  /\ [](undoTimes(gameState, Len(history)) =
          [board |-> EmptyBoard, xIsNext |-> TRUE, history |-> <<>>])

\* a position in progress with a game already tallied, as rewinding a
\* finished game by one move leaves it
C16_Witness ==
  /\ scores.X + scores.O + scores.draws >= 1
  /\ InProgress(board)
  /\ Len(history) >= 4
  /\ \E i \in EmptyCells(board) : ~InProgress(Place(board, i, current))

(***************************************************************************)
(* The component: the AI answers                                           *)
(***************************************************************************)
\* the cells in which b2 differs from b1
Changed(b1, b2) == {i \in Cells : b1[i] # b2[i]}

\* C17: in CPU mode, on a board in progress with the AI's mark to move, a
\* timer is pending, and if it is scheduled fairly the AI's turn ends: either
\* a user event takes the turn away, or the timer fires. When it fires exactly
\* one empty cell receives the AI's mark and the turn passes to the human. (A
\* move that would finish a game beyond the games counted is left out.)
C17_AIEventuallyMoves ==
  /\ [](AITurn => timer.pending)
  /\ [][makeAIMove =>
          /\ \E i \in Cells :
               /\ board[i] = Null
               /\ board'[i] = aiPlaysAs
               /\ Changed(board, board') = {i}
          /\ current' = opponentOf(aiPlaysAs')
          /\ aiPlaysAs' = aiPlaysAs
          /\ mode' = "cpu"]_vars
  /\ (AITurn /\ ENABLED TimerFires) ~> ~AITurn

\* the AI, playing X, has opened the game on its own
C17_Witness ==
  /\ mode = "cpu"
  /\ aiPlaysAs = "X"
  /\ Len(history) = 1
  /\ history[1] = EmptyBoard
  /\ board = Place(EmptyBoard, bestMove(EmptyBoard, "X"), "X")
  /\ ~xIsNext
  /\ ~timer.pending

(***************************************************************************)
(* The terminal test of the search and the evaluator of the component      *)
(***************************************************************************)
InitTests ==
  /\ board \in Boards
  /\ player = "X"
  /\ pc = "call"
  /\ ret = NullResult
  /\ AppIdle
  /\ SearchIdle
  /\ CalcIdle

\* both functions called on the same board
CallBothTests ==
  /\ pc = "call"
  /\ ret' = [search |-> winnerCheck(board), app |-> checkWinner(board)]
  /\ pc' = "return"
  /\ UNCHANGED <<board, player, appVars, searchVars, calcVars>>

NextTests == CallBothTests

SpecTests == InitTests /\ [][NextTests]_vars

\* C18: on each of the 3^9 boards winnerCheck returns null exactly when
\* checkWinner returns null, and otherwise the value of checkWinner's winner
\* field: "X", "O" or "draw".
C18_TerminalTestsAgree ==
  pc = "return" =>
    /\ ret.search = Null <=> ret.app = NullResult
    /\ ret.app # NullResult => ret.search = ret.app.winner
    /\ ret.search \in {Null, "X", "O", "draw"}

\* a full board with a completed line: both report the mark, not a draw
C18_Witness ==
  /\ pc = "return"
  /\ everyBoolean(board)
  /\ ret.search \in Marks
  /\ ret.app.winner = ret.search

(***************************************************************************)
(* The component: the tallies                                              *)
(***************************************************************************)
NoScores == [X |-> 0, O |-> 0, draws |-> 0]

\* the tally of the outcome r of a finished game
TallyOf(r) == IF r.winner = "draw" THEN "draws" ELSE r.winner

\* the board passes from in progress to terminal
Finishes == InProgress(board) /\ ~InProgress(board')

\* C19: the tallies change only when the board passes from in progress to
\* terminal or on a full reset; each such passage raises exactly one tally by
\* exactly 1, the winner's on a win and draws on a draw, so that the tallies
\* add up to the games finished since the last full reset; every other move,
\* undo and resetBoard(false) leave the three tallies as they are, and
\* resetBoard(true) sets them to 0.
C19_TalliesCountFinishes ==
  /\ [][scores' # scores => Finishes \/ resetBoard(TRUE)]_vars
  /\ [][Finishes =>
          scores' = [scores EXCEPT ![TallyOf(checkWinner(board'))] = @ + 1]]_vars
  /\ [][resetBoard(FALSE) \/ undo \/ (MoveStep /\ InProgress(board')) =>
          scores' = scores]_vars
  /\ [][resetBoard(TRUE) => scores' = NoScores]_vars

\* a drawn game, tallied once
C19_Witness ==
  /\ result = DrawResult
  /\ scores = [X |-> 0, O |-> 0, draws |-> 1]
  /\ Len(history) = 9

(***************************************************************************)
(* The MinimalScientificCalculator component. Strings are sequences of     *)
(* characters; the expressions typed hold the characters of TypedChars.    *)
(***************************************************************************)
\* the longest expression typed
MaxLen == 3

\* the entries recorded in the history
MaxEntries == 1

\* .slice(0, 20)
HistoryLimit == 20

DigitChars == <<"0", "1", "2", "3", "4", "5", "6", "7", "8", "9">>

LowerCase == <<"a", "b", "c", "d", "e", "f", "g", "h", "i", "j", "k", "l", "m", "n", "o", "p", "q", "r", "s", "t", "u", "v", "w", "x", "y", "z">>

UpperCase == <<"A", "B", "C", "D", "E", "F", "G", "H", "I", "J", "K", "L", "M", "N", "O", "P", "Q", "R", "S", "T", "U", "V", "W", "X", "Y", "Z">>

isDigit(c) == \E d \in 1..10 : DigitChars[d] = c

digitValue(c) == (CHOOSE d \in 1..10 : DigitChars[d] = c) - 1

\* [a-zA-Z]
isLetter(c) == \E k \in 1..26 : LowerCase[k] = c \/ UpperCase[k] = c

\* the flag i of the blacklist
toLower(c) ==
  IF \E k \in 1..26 : UpperCase[k] = c
  THEN LowerCase[CHOOSE k \in 1..26 : UpperCase[k] = c]
  ELSE c

\* "Error" and "Math Error"
Error == <<"E", "r", "r", "o", "r">>

MathError == <<"M", "a", "t", "h", " ", "E", "r", "r", "o", "r">>

\* w occurs in s at position k
occursAt(s, w, k) ==
  /\ k + Len(w) - 1 <= Len(s)
  /\ \A j \in 1..Len(w) : toLower(s[k + j - 1]) = w[j]

\* \w of the \b around new
isWordChar(c) == isLetter(c) \/ isDigit(c) \/ c = "_"

\* the words of the blacklist but new, in lower case
Blacklist ==
  { <<"w", "i", "n", "d", "o", "w">>,
    <<"g", "l", "o", "b", "a", "l">>,
    <<"p", "r", "o", "c", "e", "s", "s">>,
    <<"c", "o", "n", "s", "t", "r", "u", "c", "t", "o", "r">>,
    <<"r", "e", "q", "u", "i", "r", "e">>,
    <<"m", "o", "d", "u", "l", "e">>,
    <<"f", "u", "n", "c", "t", "i", "o", "n">>,
    <<"w", "h", "i", "l", "e">>,
    <<"f", "o", "r">>,
    <<"=", ">">> }

\* blacklist.test(s)
blacklisted(s) ==
  \E k \in 1..Len(s) :
    \/ \E w \in Blacklist : occursAt(s, w, k)
    \/ /\ occursAt(s, <<"n", "e", "w">>, k)
       /\ k = 1 \/ ~isWordChar(s[k - 1])
       /\ k + 3 > Len(s) \/ ~isWordChar(s[k + 3])

\* /^[0-9A-Za-z+\-*/%^()., _]*$/
isSafeChar(c) ==
  \/ isDigit(c)
  \/ isLetter(c)
  \/ c \in {"+", "-", "*", "/", "%", "^", "(", ")", ".", ",", " ", "_"}

isExpressionSafe(s) ==
  /\ ~blacklisted(s)
  /\ \A k \in 1..Len(s) : isSafeChar(s[k])

RECURSIVE replaceCaret(_)
\* raw.replace(/\^/g, "**")
replaceCaret(s) ==
  IF s = <<>> THEN <<>>
  ELSE (IF Head(s) = "^" THEN <<"*", "*">> ELSE <<Head(s)>>) \o replaceCaret(Tail(s))

\* the position after the blanks of s from k on
RECURSIVE skipBlanks(_, _)
skipBlanks(s, k) ==
  IF k <= Len(s) /\ s[k] = " " THEN skipBlanks(s, k + 1) ELSE k

RECURSIVE timesAfterDigit(_, _)
\* .replace(/(\d)\s*([a-zA-Z(])/g, "$1*$2") from position k on
timesAfterDigit(s, k) ==
  IF k > Len(s) THEN <<>>
  ELSE LET j == skipBlanks(s, k + 1) IN
       IF isDigit(s[k]) /\ j <= Len(s) /\ (isLetter(s[j]) \/ s[j] = "(")
       THEN <<s[k], "*", s[j]>> \o timesAfterDigit(s, j + 1)
       ELSE <<s[k]>> \o timesAfterDigit(s, k + 1)

RECURSIVE timesBeforeDigit(_, _)
\* .replace(/([)a-zA-Z])\s*(\d)/g, "$1*$2") from position k on
timesBeforeDigit(s, k) ==
  IF k > Len(s) THEN <<>>
  ELSE LET j == skipBlanks(s, k + 1) IN
       IF (isLetter(s[k]) \/ s[k] = ")") /\ j <= Len(s) /\ isDigit(s[j])
       THEN <<s[k], "*", s[j]>> \o timesBeforeDigit(s, j + 1)
       ELSE <<s[k]>> \o timesBeforeDigit(s, k + 1)

transformed(raw) == timesBeforeDigit(timesAfterDigit(replaceCaret(raw), 1), 1)

\* the NaN of a remainder by 0; the numbers of the expressions typed are not
\* negative
NaN == -1

RECURSIVE valueInBase(_, _, _)
\* the digits ds read in base b after the value acc
valueInBase(ds, b, acc) ==
  IF ds = <<>> THEN acc
  ELSE valueInBase(Tail(ds), b, acc * b + digitValue(Head(ds)))

\* a numeric literal of the function body, which is not strict code: a leading
\* 0 before digits below 8 makes it octal
literalValue(ds) ==
  IF Len(ds) > 1 /\ ds[1] = "0" /\ \A k \in 1..Len(ds) : digitValue(ds[k]) < 8
  THEN valueInBase(ds, 8, 0)
  ELSE valueInBase(ds, 10, 0)

RECURSIVE operands(_, _)
\* the text between the % signs of s, cur being the operand under way
operands(s, cur) ==
  IF s = <<>> THEN <<cur>>
  ELSE IF Head(s) = "%" THEN <<cur>> \o operands(Tail(s), <<>>)
  ELSE operands(Tail(s), Append(cur, Head(s)))

RECURSIVE remainders(_, _, _)
\* a % b % c ..., from the left
remainders(ops, k, acc) ==
  IF k > Len(ops) THEN acc
  ELSE LET d == literalValue(ops[k]) IN
       remainders(ops, k + 1, IF acc = NaN \/ d = 0 THEN NaN ELSE acc % d)

\* new Function(...paramNames, `return (${transformed})`) called, for a body
\* of digits and % signs: a SyntaxError is thrown unless every % stands
\* between two numbers
runFunction(t) ==
  LET ops == operands(t, <<>>) IN
  IF \E k \in 1..Len(ops) : ops[k] = <<>> THEN [thrown |-> TRUE]
  ELSE [thrown |-> FALSE, value |-> remainders(ops, 2, literalValue(ops[1]))]

RECURSIVE String(_)
\* String(result) of a number that is not negative
String(n) ==
  IF n < 10 THEN <<DigitChars[n + 1]>>
  ELSE Append(String(n \div 10), DigitChars[(n % 10) + 1])

\* raw.trim() === ""
isBlank(raw) == \A k \in 1..Len(raw) : raw[k] = " "

evaluateExpr(raw) ==
  IF raw = <<>> \/ isBlank(raw) THEN <<>>
  ELSE IF ~isExpressionSafe(raw) THEN Error
  ELSE LET r == runFunction(transformed(raw)) IN
       IF r.thrown THEN Error
       ELSE IF r.value = NaN THEN MathError
       ELSE String(r.value)

\* s.slice(0, -1)
dropLast(s) == IF s = <<>> THEN s ELSE SubSeq(s, 1, Len(s) - 1)

\* the history without its cut
sliceHistoryKeepsAll(h) == h

\* h.slice(0, 20)
sliceHistory(h) == SubSeq(h, 1, IF Len(h) < HistoryLimit THEN Len(h) ELSE HistoryLimit)

RECURSIVE trailingDigits(_)
\* the length of the run of digits s ends with
trailingDigits(s) ==
  IF s # <<>> /\ isDigit(s[Len(s)]) THEN 1 + trailingDigits(dropLast(s)) ELSE 0

\* case "±", for an expression without a decimal point: the number s ends
\* with, and its sign if it has one, is negated
toggleSign(s) ==
  IF s = <<>> THEN <<"-">>
  ELSE LET n == trailingDigits(s)
           signed == n < Len(s) /\ s[Len(s) - n] = "-"
           start == IF signed THEN Len(s) - n ELSE Len(s) - n + 1
           head == SubSeq(s, 1, start - 1)
           num == SubSeq(s, start, Len(s))
       IN IF n = 0 THEN s
          ELSE IF signed THEN head \o Tail(num)
          ELSE head \o <<"(", "-">> \o num \o <<")">>

\* a plausible slip: setExpr(res) in the else branch of "=" as well
buttonStateErrorToExpr(v, e, o, h) ==
  CASE v = "C" -> [expr |-> <<>>, output |-> <<>>, history |-> h]
    [] v = "<-" -> [expr |-> dropLast(e), output |-> o, history |-> h]
    [] v = "=" ->
         LET res == evaluateExpr(e) IN
         IF res # Error /\ res # MathError /\ res # <<>>
         THEN [expr |-> res, output |-> res,
               history |-> sliceHistory(<<[in |-> e, out |-> res]>> \o h)]
         ELSE [expr |-> res, output |-> res, history |-> h]
    [] v = "+-" -> [expr |-> toggleSign(e), output |-> o, history |-> h]
    [] OTHER -> [expr |-> Append(e, v), output |-> o, history |-> h]

\* expr, output and history after handleButton(v); "<-" stands for the
\* backspace button and "+-" for the sign button
buttonState(v, e, o, h) ==
  CASE v = "C" -> [expr |-> <<>>, output |-> <<>>, history |-> h]
    [] v = "<-" -> [expr |-> dropLast(e), output |-> o, history |-> h]
    [] v = "=" ->
         LET res == evaluateExpr(e) IN
         IF res # Error /\ res # MathError /\ res # <<>>
         THEN [expr |-> res, output |-> res,
               history |-> sliceHistory(<<[in |-> e, out |-> res]>> \o h)]
         ELSE [expr |-> e, output |-> res, history |-> h]
    [] v = "+-" -> [expr |-> toggleSign(e), output |-> o, history |-> h]
    [] OTHER -> [expr |-> Append(e, v), output |-> o, history |-> h]

\* the buttons pressed
Buttons == {"C", "<-", "=", "0", "%"}

\* the keys pressed
Keys == {"Enter", "Backspace", "0", "%", "#"}

\* the characters the input field receives
TypedChars == {"0", "%", "#"}

\* const allowed = "0123456789+-*/()^.,%"
isAllowedKey(c) ==
  isDigit(c) \/ c \in {"+", "-", "*", "/", "(", ")", "^", ".", ",", "%"}

\* the tic-tac-toe component is not mounted
GameIdle ==
  /\ board = EmptyBoard
  /\ player = "X"
  /\ pc = "call"
  /\ ret = Undefined
  /\ AppIdle
  /\ SearchIdle

gameVars == <<board, player, pc, ret, appVars, searchVars>>

InitCalc ==
  /\ CalcIdle
  /\ GameIdle

\* the expression stays within MaxLen characters and the history within
\* MaxEntries entries
CalcBounds == Len(expr) <= MaxLen /\ Len(calcHistory) <= MaxEntries

handleButton(v) ==
  /\ LET n == buttonState(v, expr, output, calcHistory) IN
     /\ expr' = n.expr
     /\ output' = n.output
     /\ calcHistory' = n.history
  /\ UNCHANGED gameVars

handleKeyDown(key) ==
  /\ IF key = "Enter" THEN handleButton("=")
     ELSE IF key = "Backspace" THEN handleButton("<-")
     ELSE IF isAllowedKey(key) \/ isLetter(key)
     THEN expr' = Append(expr, key) /\ UNCHANGED <<output, calcHistory>>
     ELSE UNCHANGED calcVars
  /\ UNCHANGED gameVars

\* onChange={(e) => setExpr(e.target.value)}, the field's text being the
\* expression with the character c typed at its end
inputChange(c) ==
  /\ expr' = Append(expr, c)
  /\ UNCHANGED <<output, calcHistory, gameVars>>

NextCalc ==
  \/ \E v \in Buttons : handleButton(v) /\ CalcBounds'
  \/ \E key \in Keys : handleKeyDown(key) /\ CalcBounds'
  \/ \E c \in TypedChars : inputChange(c) /\ CalcBounds'

SpecCalc == InitCalc /\ [][NextCalc]_vars

(***************************************************************************)
(* The calculator: = and C                                                 *)
(***************************************************************************)
\* C20: "=" on an expression for which evaluateExpr yields "Error", "Math
\* Error" or the empty string leaves the expression and the history as they
\* are and sets the output to that result; on any other result it sets the
\* expression and the output to the result and puts the pair of the
\* expression before and the result at the front of the history; "C" empties
\* the expression and the output and leaves the history as it is.
C20_EqualsAndClear ==
  LET res == evaluateExpr(expr)
      eq == buttonState("=", expr, output, calcHistory)
      clr == buttonState("C", expr, output, calcHistory)
  IN /\ IF res \in {Error, MathError, <<>>}
        THEN /\ eq.expr = expr
             /\ eq.history = calcHistory
             /\ eq.output = res
        ELSE /\ eq.expr = res
             /\ eq.output = res
             /\ eq.history # <<>>
             /\ Head(eq.history) = [in |-> expr, out |-> res]
             /\ Tail(eq.history) = SubSeq(calcHistory, 1, Len(eq.history) - 1)
     /\ clr.expr = <<>>
     /\ clr.output = <<>>
     /\ clr.history = calcHistory

\* after 00 was evaluated to 0 and recorded, 0%0 was typed and "=" gave Math
\* Error, which left the expression and the history
C20_Witness ==
  /\ expr = <<"0", "%", "0">>
  /\ output = MathError
  /\ calcHistory = <<[in |-> <<"0", "0">>, out |-> <<"0">>]>>

(***************************************************************************)
(* The calculator: the history                                             *)
(***************************************************************************)
\* what "=" records for the expression 0
plainEntry == [in |-> <<"0">>, out |-> <<"0">>]

\* the entries of h that were recorded for another expression than 0
otherEntries(h) == {k \in 1..Len(h) : h[k] # plainEntry}

\* the history after "=" was pressed n times on the expression 0
plainHistory(n) == [k \in 1..n |-> plainEntry]

\* the calculator as it is mounted, or after 0 was evaluated HistoryLimit - 1
\* times and the expression was cleared
InitHistory ==
  /\ expr = <<>>
  /\ output = <<>>
  /\ calcHistory \in {plainHistory(0), plainHistory(HistoryLimit - 1)}
  /\ GameIdle

\* the expression stays below MaxLen characters; the history holds at most
\* MaxEntries entries of another expression than 0; and of the histories
\* that are not within one entry of full, those of at most MaxEntries
\* entries are followed
HistoryBounds ==
  /\ Len(expr) < MaxLen
  /\ Cardinality(otherEntries(calcHistory)) <= MaxEntries
  /\ Len(calcHistory) <= MaxEntries \/ Len(calcHistory) >= HistoryLimit - 1

NextHistory ==
  \/ \E v \in Buttons : handleButton(v) /\ HistoryBounds'
  \/ \E key \in Keys : handleKeyDown(key) /\ HistoryBounds'
  \/ \E c \in TypedChars \cap Buttons : inputChange(c) /\ HistoryBounds'

SpecHistory == InitHistory /\ [][NextHistory]_vars

\* "=" is pressed on an expression whose evaluation is recorded
Recorded == evaluateExpr(expr) \notin {Error, MathError, <<>>}

\* the history with the entry of the present expression at its front, and
\* without its last entry when it holds HistoryLimit entries already
pushed ==
  <<[in |-> expr, out |-> evaluateExpr(expr)]>>
    \o (IF Len(calcHistory) < HistoryLimit
        THEN calcHistory
        ELSE SubSeq(calcHistory, 1, HistoryLimit - 1))

\* C21: the history never holds more than 20 entries; "=" on an expression
\* with a recorded result puts its entry at the front of the history, before
\* the entries that were there in their order, and drops the last of them
\* when there were 20; "=" with any other result and every other button
\* leave the history as it is; and whatever the event (button, key or
\* typing), a step that changes the history is such a recording.
C21_HistoryNewestFirstAtMost20 ==
  /\ [](Len(calcHistory) <= HistoryLimit)
  /\ [](\A v \in Buttons \cup {"+-"} :
          buttonState(v, expr, output, calcHistory).history =
            IF v = "=" /\ Recorded THEN pushed ELSE calcHistory)
  /\ [][calcHistory' # calcHistory => Recorded /\ calcHistory' = pushed]_vars

\* the history is full, and the 00 that was evaluated before the last 0 is
\* its second entry, followed by entries of 0 down to the twentieth
C21_Witness ==
  /\ Len(calcHistory) = HistoryLimit
  /\ otherEntries(calcHistory) = {2}
  /\ calcHistory[2] = [in |-> <<"0", "0">>, out |-> <<"0">>]
  /\ expr = <<"0">>
  /\ output = <<"0">>

====
